---- MODULE Spec2Model ----
(***************************************************************************)
(* The parity ("XOR") notebook 3_Recurrent/3.2-RNN-Introduction.ipynb:     *)
(* the data generator, the dataset wrapper, adjust_lengths, evaluate and   *)
(* the training loop.                                                      *)
(*                                                                         *)
(* Arrays are sequences: a [batch, bits, 1] array is a sequence of rows,   *)
(* a row a sequence of 0/1 (the float32 values 0.0 and 1.0; the trailing   *)
(* axis of size 1 added by np.expand_dims carries no data).  Python's      *)
(* position t of a row is index t + 1 here.                                *)
(*                                                                         *)
(* The network's weights are floating point tensors; the model keeps of    *)
(* them only how many optimizer updates they have received (updates), and  *)
(* the thresholded predictions of a forward pass are any 0/1 array of the  *)
(* right shape.                                                            *)
(***************************************************************************)
EXTENDS Integers, Sequences, FiniteSets, TLC

\* ------------------------------------------------------------ sizes
\* The notebook's sizes, scaled down (max_bits = 50, batch_size = 8,
\* DEFAULT_NUM_SEQUENCES = 100000, 5000 validation sequences in batches of
\* 500, a validation every 1000 steps).
max_bits == 2
batch_size == 1
DEFAULT_NUM_SEQUENCES == 2
NUM_VALID_SEQUENCES == 2
VALID_BATCH_SIZE == 2
MaxValidEvery == 2
\* epochs = 5 in the notebook.
epochs == 5
\* Shapes drawn for the dataset and batch operations taken on their own.
MaxSeqs == 2
MaxLen == 3

VARIABLES
    pc,              \* position of the running cell or call
    num_sequences,   \* XORDataset.num_sequences
    num_bits,        \* XORDataset.num_bits
    features,        \* XORDataset.features
    labels,          \* XORDataset.labels
    item,            \* result of the last __getitem__ / __len__ call on a dataset
    vary_lengths,    \* the notebook's vary_lengths switch
    valid_every,     \* the validation period (1000 in the notebook)
    epoch, step,     \* loop counters of the training cell
    remaining,       \* dataset rows the shuffled loader has not yielded yet
    batch_rows,      \* dataset rows collated into the current batch
    inputs, targets, \* the current batch
    lengths,         \* result of adjust_lengths for the current batch
    out_len,         \* time dimension of the last forward pass' output
    updates,         \* number of updates the parameters have received
    grad,            \* state of the parameters' .grad
    ops,             \* operations run on the current batch, in order
    valid_accuracy,  \* the training cell's valid_accuracy
    valid_accs,      \* the training cell's valid_accs
    ev_max_bits,     \* evaluate's max_bits argument
    valid_features,  \* features of evaluate's XORDataset
    valid_labels,    \* labels of evaluate's XORDataset
    valid_next,      \* first row the sequential valid_loader has not yielded
    is_correct,      \* evaluate's is_correct
    ev_result        \* evaluate's return value

vars == <<pc, num_sequences, num_bits, features, labels, item, vary_lengths,
          valid_every, epoch, step, remaining, batch_rows, inputs, targets,
          lengths, out_len, updates, grad, ops, valid_accuracy, valid_accs,
          ev_max_bits, valid_features, valid_labels, valid_next, is_correct,
          ev_result>>

dataVars == <<num_sequences, num_bits, features, labels>>
batchVars == <<batch_rows, inputs, targets, lengths, out_len>>
loopVars == <<valid_every, epoch, step, remaining, valid_accuracy, valid_accs>>
modelVars == <<updates, grad, ops>>
evalVars == <<ev_max_bits, valid_features, valid_labels, valid_next,
              is_correct, ev_result>>

\* ------------------------------------------------------------ data
Bits == {0, 1}

\* np.random.randint(2, size=(num_sequences, num_bits)): every 0/1 matrix.
random_bits(ns, nb) == [1..ns -> [1..nb -> Bits]]

\* np.cumsum along a row.
RECURSIVE cumsum(_)
cumsum(row) ==
    IF Len(row) = 0 THEN <<>>
    ELSE LET front == cumsum(SubSeq(row, 1, Len(row) - 1))
             last == IF Len(front) = 0 THEN 0 ELSE front[Len(front)]
         IN  Append(front, last + row[Len(row)])

\* np.sum along a row, repeated at every position (the commented-out
\* "use only the final result" variant).
bitsum_final(row) ==
    [t \in 1..Len(row) |-> IF Len(row) = 0 THEN 0 ELSE cumsum(row)[Len(row)]]

\* bitsum = np.cumsum(bit_sequences, axis=1), for one row.
bitsum(row) == cumsum(row)

\* parity = bitsum % 2 != 0, as float32, for one row.
parity_of(row) ==
    [t \in 1..Len(row) |-> IF bitsum(row)[t] % 2 # 0 THEN 1 ELSE 0]

\* Every pair the generator can return.
get_random_bits_parity(ns, nb) ==
    { [bit_sequences |-> bs, parity |-> [i \in 1..ns |-> parity_of(bs[i])]] :
        bs \in random_bits(ns, nb) }

\* XORDataset.__init__: every dataset the constructor can build.
XORDataset(ns, nb) ==
    { [num_sequences |-> ns, num_bits |-> nb,
       features |-> d.bit_sequences, labels |-> d.parity] :
        d \in get_random_bits_parity(ns, nb) }

\* XORDataset.__getitem__ with the label of the next sequence.
getitem_shifted(f, l, index) == <<f[index], l[(index % Len(l)) + 1]>>

\* XORDataset.__getitem__
getitem(f, l, index) == <<f[index], l[index]>>

\* XORDataset.__len__
len(f) == Len(f)

\* A batch that is a view of the dataset's arrays.
collate_view == TRUE

\* Whether a batch yielded by a DataLoader shares memory with the dataset:
\* default_collate stacks the items into a new tensor.
collate_shares_memory == FALSE

\* The DataLoader's batch of the dataset rows `rows`: dataset[i] for each
\* row, stacked by default_collate.
default_collate(f, l, rows) ==
    [inputs |-> [k \in 1..Len(rows) |-> getitem(f, l, rows[k])[1]],
     targets |-> [k \in 1..Len(rows) |-> getitem(f, l, rows[k])[2]]]

\* The last dataset[i] a DataLoader evaluated for the batch of rows `rows`.
last_item(f, l, rows) ==
    [index |-> rows[Len(rows)], value |-> getitem(f, l, rows[Len(rows)])]

\* What the dataset array x holds after the batch b made of its rows `rows`
\* was written in place.
after_write(x, rows, b) ==
    IF collate_shares_memory
    THEN [i \in 1..Len(x) |->
            IF \E k \in 1..Len(rows) : rows[k] = i
            THEN b[CHOOSE k \in 1..Len(rows) : rows[k] = i]
            ELSE x[i]]
    ELSE x

\* ------------------------------------------------------------ adjust_lengths
\* np.sort: ascending.
RECURSIVE np_sort(_)
np_sort(s) ==
    IF Len(s) = 0 THEN <<>>
    ELSE LET m == CHOOSE k \in 1..Len(s) : \A j \in 1..Len(s) : s[k] <= s[j]
             rest == [j \in 1..(Len(s) - 1) |-> IF j < m THEN s[j] ELSE s[j + 1]]
         IN  <<s[m]>> \o np_sort(rest)

negate(s) == [k \in 1..Len(s) |-> 0 - s[k]]

\* np.sort(lengths): ascending order.
sort_ascending(l) == np_sort(l)

\* lengths = -np.sort(-lengths)
sort_descending(l) == negate(np_sort(negate(l)))

\* lengths[0] = max_bits
keep_one_max(l, mb) == [l EXCEPT ![1] = mb]

\* np.random.randint(1, max_bits, size=batch_size): low inclusive, high
\* exclusive.
random_lengths(bs, mb) == [1..bs -> 1..(mb - 1)]

\* x[i, lengths[i] + 1:] = 0 for every row: one position too late.
chop_late(x, l) ==
    [i \in 1..Len(x) |->
        [t \in 1..Len(x[i]) |-> IF t > l[i] + 1 THEN 0 ELSE x[i][t]]]

\* x[i, lengths[i]:] = 0 for every row i.
chop(x, l) ==
    [i \in 1..Len(x) |->
        [t \in 1..Len(x[i]) |-> IF t > l[i] THEN 0 ELSE x[i][t]]]

\* adjust_lengths(vary_lengths, inputs, targets): every outcome, as the
\* returned lengths and the tensors after the call; raised names the
\* exception when the call does not return.
adjust_lengths(vary, inp, tgt) ==
    LET bs == Len(inp)
        mb == Len(inp[1])
    IN  IF ~vary
        THEN { [raised |-> "", lengths |-> [i \in 1..bs |-> mb],
                inputs |-> inp, targets |-> tgt] }
        ELSE IF 1 >= mb
        THEN \* np.random.randint(1, 1): ValueError, low >= high
             { [raised |-> "ValueError", lengths |-> <<>>,
                inputs |-> inp, targets |-> tgt] }
        ELSE { LET l == sort_descending(keep_one_max(raw, mb))
               IN  [raised |-> "", lengths |-> l,
                    inputs |-> chop(inp, l), targets |-> chop(tgt, l)] :
                 raw \in random_lengths(bs, mb) }

\* ------------------------------------------------------------ forward pass
\* rnn_utils.pack_padded_sequence(inputs, lengths, batch_first=True) accepts
\* lengths that are positive, in decreasing order and no longer than the
\* padded sequences; it raises otherwise.
pack_ok(l, mb) ==
    /\ Len(l) >= 1
    /\ \A i \in 1..Len(l) : 1 <= l[i] /\ l[i] <= mb
    /\ \A i \in 1..(Len(l) - 1) : l[i] >= l[i + 1]

\* rnn_utils.pad_packed_sequence pads up to the longest sequence of the
\* batch, the first one.
padded_len(l) == l[1]

\* ------------------------------------------------------------ evaluate
\* int(max_bits * 1.5): the product is exact in floating point, int()
\* truncates it.
int_1_5(mb) == (mb * 3) \div 2

\* Validation on sequences of the training length.
same_bits(mb) == mb

\* num_bits of the validation XORDataset.
valid_num_bits(mb) == int_1_5(mb)

\* (predictions > 0.5) == (targets > 0.5): the predictions come out of
\* floating point weights, so the comparison can give any boolean array of
\* the targets' shape.  Kept of it: whether every entry is True, and its size.
compare(tgt) ==
    { [all |-> a, size |-> Len(tgt) * Len(tgt[1])] : a \in BOOLEAN }

\* is_correct = np.append(is_correct, c)
np_append(acc, c) == [all |-> acc.all /\ c.all, size |-> acc.size + c.size]

\* accuracy = is_correct.mean(), kept as "1.0" or "<1.0": the training cell
\* only compares it with 1.0.
mean(c) == IF c.all THEN "1.0" ELSE "<1.0"

\* evaluate, called with another step of the optimizer in it.
params_after_training_step(u) == u + 1

\* The parameters after a call of evaluate: its forward passes run under
\* torch.no_grad() and it never calls the optimizer.
params_after_evaluate(u) == u

\* What a call evaluate(max_bits, vary_lengths, device, model) can give: the
\* accuracy, or the exception of adjust_lengths on sequences of one bit.
evaluate(mb, vary) ==
    IF vary /\ 1 >= valid_num_bits(mb) THEN {"ValueError"} ELSE {"1.0", "<1.0"}

\* ------------------------------------------------------------ states
None == <<>>
Unbound == "unbound"

NoData ==
    /\ num_sequences = 0 /\ num_bits = 0
    /\ features = None /\ labels = None
NoBatch ==
    /\ batch_rows = None /\ inputs = None /\ targets = None
    /\ lengths = None /\ out_len = 0
NoLoop ==
    /\ valid_every = 0 /\ epoch = 0 /\ step = 0 /\ remaining = {}
    /\ valid_accuracy = Unbound /\ valid_accs = <<>>
NoModel == updates = 0 /\ grad = "none" /\ ops = <<>>
NoEval ==
    /\ ev_max_bits = 0 /\ valid_features = None /\ valid_labels = None
    /\ valid_next = 0 /\ is_correct = None /\ ev_result = Unbound

\* Sequences of distinct dataset rows: what a DataLoader can yield as one
\* batch of a dataset of n rows.
RECURSIVE Arrangements(_, _)
Arrangements(S, k) ==
    IF k = 0 \/ S = {} THEN { <<>> }
    ELSE UNION { { <<x>> \o r : r \in Arrangements(S \ {x}, k - 1) } : x \in S }

\* ------------------------------------------------------------ dataset and
\* batch operations on their own
InitData ==
    /\ pc = "dataset"
    /\ \E ns \in 1..MaxSeqs, nb \in 0..MaxLen :
         \E ds \in XORDataset(ns, nb) :
            /\ num_sequences = ds.num_sequences
            /\ num_bits = ds.num_bits
            /\ features = ds.features
            /\ labels = ds.labels
    /\ item = None
    /\ vary_lengths \in BOOLEAN
    /\ NoBatch /\ NoLoop /\ NoModel /\ NoEval

\* dataset[index]
GetItem ==
    /\ pc = "dataset"
    /\ \E index \in 1..len(features) :
         item' = [index |-> index, value |-> getitem(features, labels, index)]
    /\ UNCHANGED <<pc, dataVars, vary_lengths, batchVars, loopVars, modelVars,
                   evalVars>>

\* len(dataset)
LenCall ==
    /\ pc = "dataset"
    /\ item' = [len |-> len(features)]
    /\ UNCHANGED <<pc, dataVars, vary_lengths, batchVars, loopVars, modelVars,
                   evalVars>>

\* One batch out of a DataLoader over the dataset.
LoadBatch ==
    /\ pc = "dataset"
    /\ \E n \in 1..len(features) :
         \E rows \in Arrangements(1..len(features), n) :
            LET b == default_collate(features, labels, rows)
            IN  /\ batch_rows' = rows
                /\ inputs' = b.inputs
                /\ targets' = b.targets
                /\ item' = last_item(features, labels, rows)
    /\ pc' = "batch"
    /\ UNCHANGED <<dataVars, vary_lengths, lengths, out_len, loopVars,
                   modelVars, evalVars>>

\* lengths = adjust_lengths(vary_lengths, inputs, targets)
AdjustBatch ==
    /\ pc = "batch"
    /\ \E o \in adjust_lengths(vary_lengths, inputs, targets) :
         /\ pc' = IF o.raised = "" THEN "adjusted" ELSE o.raised
         /\ lengths' = o.lengths
         /\ inputs' = o.inputs
         /\ targets' = o.targets
         /\ features' = after_write(features, batch_rows, o.inputs)
         /\ labels' = after_write(labels, batch_rows, o.targets)
    /\ UNCHANGED <<num_sequences, num_bits, item, vary_lengths, batch_rows,
                   out_len, loopVars, modelVars, evalVars>>

NextData == GetItem \/ LenCall \/ LoadBatch \/ AdjustBatch

SpecData == InitData /\ [][NextData]_vars

\* ------------------------------------------------------------ evaluate,
\* statement by statement
InitEvaluate ==
    /\ pc = "ev_call"
    /\ ev_max_bits \in 1..max_bits
    /\ vary_lengths \in BOOLEAN
    /\ valid_features = None /\ valid_labels = None
    /\ valid_next = 0 /\ is_correct = None /\ ev_result = Unbound
    /\ item = None
    /\ NoData /\ NoBatch /\ NoLoop /\ NoModel

\* valid_loader = DataLoader(XORDataset(num_sequences=5000,
\*     num_bits=int(max_bits * 1.5)), batch_size=500); is_correct = np.array([])
EvConstruct ==
    /\ pc = "ev_call"
    /\ \E ds \in XORDataset(NUM_VALID_SEQUENCES, valid_num_bits(ev_max_bits)) :
         /\ valid_features' = ds.features
         /\ valid_labels' = ds.labels
    /\ valid_next' = 1
    /\ is_correct' = [all |-> TRUE, size |-> 0]
    /\ pc' = "ev_for"
    /\ UNCHANGED <<dataVars, item, vary_lengths, batchVars, loopVars, modelVars,
                   ev_max_bits, ev_result>>

\* for inputs, targets in valid_loader: the next batch in order, or the end
\* of the loop and accuracy = is_correct.mean(); return accuracy
EvFetch ==
    /\ pc = "ev_for"
    /\ IF valid_next > len(valid_features)
       THEN /\ ev_result' = mean(is_correct)
            /\ pc' = "ev_return"
            /\ UNCHANGED <<batch_rows, inputs, targets, valid_next, item>>
       ELSE LET last == IF valid_next + VALID_BATCH_SIZE - 1 < len(valid_features)
                        THEN valid_next + VALID_BATCH_SIZE - 1
                        ELSE len(valid_features)
                rows == [k \in 1..(last - valid_next + 1) |-> valid_next + k - 1]
                b == default_collate(valid_features, valid_labels, rows)
            IN  /\ batch_rows' = rows
                /\ inputs' = b.inputs
                /\ targets' = b.targets
                /\ item' = last_item(valid_features, valid_labels, rows)
                /\ valid_next' = last + 1
                /\ pc' = "ev_adjust"
                /\ UNCHANGED ev_result
    /\ UNCHANGED <<dataVars, vary_lengths, lengths, out_len, loopVars,
                   modelVars, ev_max_bits, valid_features, valid_labels,
                   is_correct>>

\* lengths = adjust_lengths(vary_lengths, inputs, targets)
EvAdjust ==
    /\ pc = "ev_adjust"
    /\ \E o \in adjust_lengths(vary_lengths, inputs, targets) :
         /\ pc' = IF o.raised = "" THEN "ev_forward" ELSE o.raised
         /\ lengths' = o.lengths
         /\ inputs' = o.inputs
         /\ targets' = o.targets
         /\ valid_features' = after_write(valid_features, batch_rows, o.inputs)
         /\ valid_labels' = after_write(valid_labels, batch_rows, o.targets)
    /\ UNCHANGED <<dataVars, item, vary_lengths, batch_rows, out_len, loopVars,
                   modelVars, ev_max_bits, valid_next, is_correct, ev_result>>

\* with torch.no_grad(): logits, predictions = model(inputs, lengths);
\* is_correct = np.append(is_correct, (predictions > 0.5) == (targets > 0.5))
EvForward ==
    /\ pc = "ev_forward"
    /\ IF ~pack_ok(lengths, Len(inputs[1]))
       THEN /\ pc' = "RuntimeError"
            /\ UNCHANGED <<out_len, is_correct>>
       ELSE /\ out_len' = padded_len(lengths)
            /\ IF padded_len(lengths) # Len(targets[1])
               THEN pc' = "RuntimeError" /\ UNCHANGED is_correct
               ELSE /\ pc' = "ev_for"
                    /\ \E c \in compare(targets) :
                         is_correct' = np_append(is_correct, c)
    /\ updates' = params_after_evaluate(updates)
    /\ UNCHANGED <<dataVars, item, vary_lengths, batch_rows, inputs, targets,
                   lengths, loopVars, grad, ops, ev_max_bits, valid_features,
                   valid_labels, valid_next, ev_result>>

\* ------------------------------------------------------------ training cell
\* len(train_loader): the last batch may be smaller.
NumBatches == (DEFAULT_NUM_SEQUENCES + batch_size - 1) \div batch_size

\* The notebook validates every 1000 steps and an epoch has 12500 batches:
\* the first epoch always reaches a validation.
ValidEvery == { v \in 1..MaxValidEvery : v <= NumBatches }

InitTrain ==
    /\ pc = "for_epoch"
    /\ \E ds \in XORDataset(DEFAULT_NUM_SEQUENCES, max_bits) :
         /\ num_sequences = ds.num_sequences
         /\ num_bits = ds.num_bits
         /\ features = ds.features
         /\ labels = ds.labels
    /\ item = None
    /\ vary_lengths \in BOOLEAN
    /\ valid_every \in ValidEvery
    /\ epoch = 0 /\ step = 0 /\ remaining = {}
    /\ valid_accuracy = Unbound /\ valid_accs = <<>>
    /\ NoBatch /\ NoModel /\ NoEval

\* The outer loop without its break.
never_break(acc) == FALSE

\* if valid_accuracy == 1.0: break, in the inner loop
stop_early(acc) == acc = "1.0"

\* if valid_accuracy == 1.0: break, after the inner loop
outer_break(acc) == acc = "1.0"

\* for epoch in range(1, epochs + 1): the next epoch starts a new shuffled
\* pass over train_loader; after the last one the cell is done.
ForEpoch ==
    /\ pc = "for_epoch"
    /\ IF epoch < epochs
       THEN /\ epoch' = epoch + 1
            /\ remaining' = 1..len(features)
            /\ pc' = "for_batch"
       ELSE /\ pc' = "done"
            /\ UNCHANGED <<epoch, remaining>>
    /\ UNCHANGED <<dataVars, item, vary_lengths, valid_every, step, batchVars,
                   modelVars, valid_accuracy, valid_accs, evalVars>>

\* for inputs, targets in train_loader: batch_size rows not yet seen in this
\* epoch, in any order (shuffle=True), or the end of the epoch.
FetchBatch ==
    /\ pc = "for_batch"
    /\ IF remaining = {}
       THEN /\ pc' = "epoch_end"
            /\ UNCHANGED <<remaining, batch_rows, inputs, targets, ops, item>>
       ELSE \E rows \in Arrangements(remaining, batch_size) :
               LET b == default_collate(features, labels, rows)
               IN  /\ batch_rows' = rows
                   /\ inputs' = b.inputs
                   /\ targets' = b.targets
                   /\ remaining' = remaining \ { rows[k] : k \in 1..Len(rows) }
                   /\ item' = last_item(features, labels, rows)
                   /\ ops' = <<>>
                   /\ pc' = "adjust"
    /\ UNCHANGED <<dataVars, vary_lengths, valid_every, epoch, step,
                   lengths, out_len, updates, grad, valid_accuracy, valid_accs,
                   evalVars>>

\* lengths = adjust_lengths(vary_lengths, inputs, targets)
AdjustLengths ==
    /\ pc = "adjust"
    /\ \E o \in adjust_lengths(vary_lengths, inputs, targets) :
         /\ pc' = IF o.raised = "" THEN "zero_grad" ELSE o.raised
         /\ lengths' = o.lengths
         /\ inputs' = o.inputs
         /\ targets' = o.targets
         /\ features' = after_write(features, batch_rows, o.inputs)
         /\ labels' = after_write(labels, batch_rows, o.targets)
    /\ UNCHANGED <<num_sequences, num_bits, item, vary_lengths, batch_rows,
                   out_len, loopVars, modelVars, evalVars>>

\* optimizer.zero_grad()
ZeroGrad ==
    /\ pc = "zero_grad"
    /\ grad' = "zero"
    /\ ops' = Append(ops, "zero_grad")
    /\ pc' = "forward"
    /\ UNCHANGED <<dataVars, item, vary_lengths, batchVars, loopVars, updates,
                   evalVars>>

\* logits, predictions = model(inputs, lengths)
Forward ==
    /\ pc = "forward"
    /\ IF ~pack_ok(lengths, Len(inputs[1]))
       THEN pc' = "RuntimeError" /\ UNCHANGED <<out_len, ops>>
       ELSE /\ out_len' = padded_len(lengths)
            /\ ops' = Append(ops, "forward")
            /\ pc' = "loss"
    /\ UNCHANGED <<dataVars, item, vary_lengths, batch_rows, inputs, targets,
                   lengths, loopVars, updates, grad, evalVars>>

\* loss = loss_fn(logits, targets): the shapes must agree.
Loss ==
    /\ pc = "loss"
    /\ IF out_len # Len(targets[1])
       THEN pc' = "ValueError" /\ UNCHANGED ops
       ELSE ops' = Append(ops, "loss") /\ pc' = "backward"
    /\ UNCHANGED <<dataVars, item, vary_lengths, batchVars, loopVars, updates,
                   grad, evalVars>>

\* loss.backward()
Backward ==
    /\ pc = "backward"
    /\ grad' = "computed"
    /\ ops' = Append(ops, "backward")
    /\ pc' = "step"
    /\ UNCHANGED <<dataVars, item, vary_lengths, batchVars, loopVars, updates,
                   evalVars>>

\* optimizer.step(); step += 1: two consecutive statements, nothing between
\* them can fail or read the counter.  The training accuracy appended to
\* train_accs is only plotted and is not kept.
OptimizerStep ==
    /\ pc = "step"
    /\ updates' = updates + 1
    /\ step' = step + 1
    /\ ops' = Append(ops, "step")
    /\ pc' = "validate"
    /\ UNCHANGED <<dataVars, item, vary_lengths, batchVars, valid_every, epoch,
                   remaining, valid_accuracy, valid_accs, grad, evalVars>>

\* if step % 1000 == 0: valid_accuracy = evaluate(...);
\*     valid_accs.append((step, valid_accuracy));
\*     if valid_accuracy == 1.0: break
Validate ==
    /\ pc = "validate"
    /\ IF step % valid_every = 0
       THEN \E r \in evaluate(max_bits, vary_lengths) :
              /\ updates' = params_after_evaluate(updates)
              /\ IF r \in {"1.0", "<1.0"}
                 THEN /\ valid_accuracy' = r
                      /\ valid_accs' = Append(valid_accs, <<step, r>>)
                      /\ pc' = IF stop_early(r) THEN "epoch_end" ELSE "for_batch"
                 ELSE /\ pc' = r
                      /\ UNCHANGED <<valid_accuracy, valid_accs>>
       ELSE /\ pc' = "for_batch"
            /\ UNCHANGED <<updates, valid_accuracy, valid_accs>>
    /\ UNCHANGED <<dataVars, item, vary_lengths, batchVars, valid_every, epoch,
                   step, remaining, grad, ops, evalVars>>

\* if valid_accuracy == 1.0: break, after the inner loop; valid_accuracy is
\* not defined before the first validation.
EpochEnd ==
    /\ pc = "epoch_end"
    /\ pc' = IF valid_accuracy = Unbound THEN "NameError"
             ELSE IF outer_break(valid_accuracy) THEN "done"
             ELSE "for_epoch"
    /\ UNCHANGED <<dataVars, item, vary_lengths, batchVars, loopVars, modelVars,
                   evalVars>>

Init == InitTrain \/ InitEvaluate

Next ==
    \/ ForEpoch \/ FetchBatch \/ AdjustLengths \/ ZeroGrad \/ Forward \/ Loss
    \/ Backward \/ OptimizerStep \/ Validate \/ EpochEnd
    \/ EvConstruct \/ EvFetch \/ EvAdjust \/ EvForward

Spec == Init /\ [][Next]_vars

\* ------------------------------------------------------------ properties
Errors == {"ValueError", "RuntimeError", "NameError"}

\* The exclusive or of the first t bits of a row, bit by bit.
RECURSIVE XorUpTo(_, _)
XorUpTo(row, t) ==
    IF t = 0 THEN 0
    ELSE IF XorUpTo(row, t - 1) = row[t] THEN 0 ELSE 1

\* Whether the number of 1-bits among the first t bits of a row is odd.
OddOnes(row, t) == Cardinality({ k \in 1..t : row[k] = 1 }) % 2 = 1

\* C1: in every generated dataset, the label of every sequence at every
\* position is the cumulative XOR of the bits up to that position: 1 when
\* the number of 1-bits so far is odd, 0 when it is even.
C1_ParityIsCumulativeXor ==
    \A i \in 1..Len(features) :
        \A t \in 1..Len(features[i]) :
            /\ labels[i][t] = XorUpTo(features[i], t)
            /\ labels[i][t] = IF OddOnes(features[i], t) THEN 1 ELSE 0

\* A generated sequence whose parity goes to 1 and comes back to 0.
C1_Witness ==
    /\ pc = "dataset"
    /\ \E i \in 1..Len(features) :
          \E t \in 2..Len(features[i]) :
              /\ features[i][t] = 1
              /\ labels[i][t] = 0
              /\ labels[i][t - 1] = 1

\* C5: a dataset built with (num_sequences, num_bits) has num_sequences
\* items; features and labels of every item have num_bits positions holding
\* 0 or 1; item index pairs the feature sequence index with the label
\* sequence of the same index.
C5_DatasetShape ==
    /\ Len(features) = num_sequences
    /\ Len(labels) = num_sequences
    /\ \A i \in 1..num_sequences :
          /\ Len(features[i]) = num_bits
          /\ Len(labels[i]) = num_bits
          /\ \A t \in 1..num_bits :
                features[i][t] \in {0, 1} /\ labels[i][t] \in {0, 1}
    /\ "len" \in DOMAIN item => item.len = num_sequences
    /\ "value" \in DOMAIN item =>
          /\ item.index \in 1..num_sequences
          /\ item.value[1] = features[item.index]
          /\ item.value[2] = labels[item.index]
          /\ Len(item.value[1]) = num_bits
          /\ Len(item.value[2]) = num_bits

\* An item read directly from a dataset whose sequences have different
\* labels.
C5_Witness ==
    /\ pc = "dataset"
    /\ "value" \in DOMAIN item
    /\ num_sequences >= 2
    /\ \E j \in 1..num_sequences : labels[j] # labels[item.index]

C7_ChoppedAtLengths ==
    pc = "adjusted" =>
        /\ \A i \in 1..Len(inputs) :
              \A t \in 1..Len(inputs[i]) :
                  IF t > lengths[i]
                  THEN inputs[i][t] = 0 /\ targets[i][t] = 0
                  ELSE /\ inputs[i][t] = features[batch_rows[i]][t]
                       /\ targets[i][t] = labels[batch_rows[i]][t]
                       /\ targets[i][t] = XorUpTo(inputs[i], t)
        /\ ~vary_lengths =>
              /\ inputs = [i \in 1..Len(batch_rows) |-> features[batch_rows[i]]]
              /\ targets = [i \in 1..Len(batch_rows) |-> labels[batch_rows[i]]]

\* A batch in which adjust_lengths has turned a 1-bit and a 1-label into 0.
C7_Witness ==
    /\ pc = "adjusted"
    /\ vary_lengths
    /\ \E i \in 1..Len(inputs) :
          \E t \in 1..Len(inputs[i]) :
              /\ t > lengths[i]
              /\ features[batch_rows[i]][t] = 1
              /\ inputs[i][t] = 0
    /\ \E i \in 1..Len(inputs) :
          \E t \in 1..Len(inputs[i]) :
              /\ t > lengths[i]
              /\ labels[batch_rows[i]][t] = 1
              /\ targets[i][t] = 0

FiveOps == <<"zero_grad", "forward", "loss", "backward", "step">>

\* A step that changes the parameters is the optimizer's step of the
\* training loop, the last operation on its batch.
UpdateIsOptimizerStep ==
    (updates' # updates) =>
        (/\ pc = "step"
         /\ updates' = updates + 1
         /\ step' = step + 1
         /\ ops' = FiveOps)

\* The call of evaluate in the training loop, and every statement of
\* evaluate, leave the parameters as they are.
EvaluateKeepsParameters ==
    (pc \in {"validate", "ev_call", "ev_for", "ev_adjust", "ev_forward"}) =>
        (updates' = updates)

\* C3: the parameters are updated by optimizer.step, once per batch, and by
\* nothing else: the operations run on a consumed batch are zero_grad,
\* forward, loss, backward, step, in that order and once each; no batch is
\* abandoned on an exception; the step counter equals the number of updates;
\* an update is always the optimizer's step of the training loop; evaluate
\* (as called from the loop, and every statement of it) leaves the
\* parameters as they are.
C3_OnlyOptimizerUpdates ==
    /\ [](/\ step = updates
          /\ \E n \in 0..Len(FiveOps) : ops = SubSeq(FiveOps, 1, n)
          /\ pc = "validate" => ops = FiveOps
          /\ pc = "step" => grad = "computed"
          /\ features # None => pc \notin Errors)
    /\ [][UpdateIsOptimizerStep]_vars
    /\ [][EvaluateKeepsParameters]_vars

\* Training in progress after a validation and at least two more batches,
\* with as many updates as steps.
C3_Witness ==
    /\ pc = "for_batch"
    /\ valid_accs # <<>>
    /\ step >= valid_accs[1][1] + 2
    /\ updates = step

NothingAfterPerfect ==
    (valid_accuracy = "1.0") =>
        (/\ pc' = "done"
         /\ UNCHANGED <<step, updates, epoch, remaining, batch_rows, inputs,
                        targets, valid_accs, valid_accuracy>>)

\* C8: validation has run exactly once at each positive multiple of the
\* validation period among the steps completed; once a validation has
\* returned 1.0 no further batch is loaded and no further optimizer step is
\* made, and the cell ends; a cell that ends without a validation of 1.0 has
\* consumed every batch of every epoch, and training never ends on an
\* exception.
C8_EarlyStop ==
    /\ [](/\ LET completed == IF pc = "validate" THEN step - 1 ELSE step
             IN  /\ { valid_accs[k][1] : k \in 1..Len(valid_accs) } =
                      { n \in 1..completed : n % valid_every = 0 }
                 /\ Len(valid_accs) =
                      Cardinality({ n \in 1..completed : n % valid_every = 0 })
          /\ valid_accuracy # Unbound =>
                valid_accuracy = valid_accs[Len(valid_accs)][2]
          /\ valid_accuracy = "1.0" =>
                /\ pc \in {"epoch_end", "done"}
                /\ valid_accs[Len(valid_accs)][1] = step
          /\ (pc = "done" /\ valid_accuracy # "1.0") =>
                /\ epoch = epochs
                /\ remaining = {}
                /\ step = epochs * NumBatches
          /\ features # None => pc \notin Errors)
    /\ [][NothingAfterPerfect]_vars

\* The cell ended by a validation of 1.0 in the middle of an epoch that is
\* not the last.
C8_Witness ==
    /\ pc = "done"
    /\ valid_accuracy = "1.0"
    /\ epoch < epochs
    /\ remaining # {}
    /\ step >= 2

\* The summary `evaluate` used by the training cell gives what the
\* statements of evaluate give.
EvaluateSummarySound ==
    /\ pc = "ev_return" => ev_result \in evaluate(ev_max_bits, vary_lengths)
    /\ (pc \in Errors /\ ev_max_bits # 0) =>
          pc \in evaluate(ev_max_bits, vary_lengths)

====
